---- MODULE Spec2Model ----
(***************************************************************************)
(* Model of remoteOps/defs.py: the register utilities get_cregs/get_qregs, *)
(* the protocol builders, addInstr, decompose and autosubstitute, acting   *)
(* on one QuantumCircuit.                                                  *)
(*                                                                         *)
(* A circuit is a record [data, qregs, cregs]: the instruction list and    *)
(* the two register lists.  A register is [name, size]; a qubit or a       *)
(* classical bit is <<register name, index>>, which is how the host        *)
(* library compares register-owned bits.  An instruction is                *)
(* [name, params, qargs, cargs, cond], cond being <<>> or <<bit, value>>.  *)
(* Python's 0-based positions are written 1-based here: creg[0] of the     *)
(* source is creg[1] below, circ[idxStart:idx] is SubSeq(.., idxStart,     *)
(* idx-1) with both indices shifted by one.                                *)
(***************************************************************************)
EXTENDS Integers, Sequences, FiniteSets, TLC

VARIABLES circ, pre, last

vars == <<circ, pre, last>>

(***************************************************************************)
(* Bounds of the model.                                                    *)
(***************************************************************************)
\* Instructions are appended by the caller only while the circuit holds
\* fewer than MaxLen of them; the two passes run on circuits of any length
\* reached that way.
MaxLen == 3

(***************************************************************************)
(* The values the caller's inputs are drawn from.                          *)
(***************************************************************************)
Reg(n, s) == [name |-> n, size |-> s]

UserQ == Reg("q", 3)
UserC == Reg("c", 3)
EprQ  == Reg("eq", 2)
EprC  == Reg("ec", 2)

Bits(r) == {<<r.name, i>> : i \in 0..(r.size - 1)}

UserQubits == Bits(UserQ)

\* A register reference as the caller gives it: None, a name, or a register
\* object.  One record shape serves the three.
NoneRef      == [t |-> "none", name |-> "", size |-> 0]
NameRef(n)   == [t |-> "name", name |-> n, size |-> 0]
HandleRef(r) == [t |-> "reg", name |-> r.name, size |-> r.size]

RegOf(ref) == Reg(ref.name, ref.size)

Phis == {2}

ParamLists == {<<>>} \cup {<<p>> : p \in Phis}

MacroNames == {"RemoteCX", "RemoteRZZ", "RemoteCRZ", "Teleport", "GenEPR"}

(***************************************************************************)
(* The host library (qiskit.circuit), as far as the source relies on it.   *)
(***************************************************************************)
Instr(n, ps, qs, cs) ==
    [name |-> n, params |-> ps, qargs |-> qs, cargs |-> cs, cond |-> <<>>]

\* instruction.c_if(bit, value)
c_if(ins, bit, val) == [ins EXCEPT !.cond = <<bit, val>>]

RegNames(c) ==
    {c.qregs[i].name : i \in DOMAIN c.qregs} \cup {c.cregs[i].name : i \in DOMAIN c.cregs}

\* circ.has_register(register): registers compare equal when kind, name and
\* size agree.
has_creg(c, r) == \E i \in DOMAIN c.cregs : c.cregs[i] = r
has_qreg(c, r) == \E i \in DOMAIN c.qregs : c.qregs[i] = r

\* circ.add_register(register) raises when the circuit already holds a
\* register of that name; otherwise the register is appended.
add_creg(c, r) ==
    IF r.name \in RegNames(c)
    THEN [ok |-> FALSE, circ |-> c]
    ELSE [ok |-> TRUE, circ |-> [c EXCEPT !.cregs = Append(@, r)]]

add_qreg(c, r) ==
    IF r.name \in RegNames(c)
    THEN [ok |-> FALSE, circ |-> c]
    ELSE [ok |-> TRUE, circ |-> [c EXCEPT !.qregs = Append(@, r)]]

NoDups(s) == \A i, j \in DOMAIN s : i # j => s[i] # s[j]

\* Iterating a register yields its bits in order.  get_cregs/get_qregs hand
\* a name back as the string itself; indexing or iterating a string yields
\* characters, which are no bits of any circuit (only the first two are
\* ever read, and every name used here has at least two).
IterOf(ref) ==
    IF ref.t = "reg"
    THEN [i \in 1..ref.size |-> <<ref.name, i - 1>>]
    ELSE [i \in 1..2 |-> <<"chr", i - 1>>]

IsQubit(c, x) == \E i \in DOMAIN c.qregs : x \in Bits(c.qregs[i])
IsClbit(c, x) == \E i \in DOMAIN c.cregs : x \in Bits(c.cregs[i])

\* circ.append(instruction, qargs, cargs): raises unless every argument is
\* a bit of the circuit, the qubit arguments are distinct and as many as
\* the instruction declares; otherwise the instruction goes to the end.
append(c, ins, num_qubits) ==
    IF /\ \A i \in DOMAIN ins.qargs : IsQubit(c, ins.qargs[i])
       /\ \A i \in DOMAIN ins.cargs : IsClbit(c, ins.cargs[i])
       /\ NoDups(ins.qargs)
       /\ Len(ins.qargs) = num_qubits
    THEN [ok |-> TRUE, circ |-> [c EXCEPT !.data = Append(@, ins)]]
    ELSE [ok |-> FALSE, circ |-> c]

\* The gate methods of the circuit used by the builders.
h(q)          == Instr("h", <<>>, <<q>>, <<>>)
x(q)          == Instr("x", <<>>, <<q>>, <<>>)
z(q)          == Instr("z", <<>>, <<q>>, <<>>)
rz(phi, q)    == Instr("rz", <<phi>>, <<q>>, <<>>)
cnot(a, b)    == Instr("cx", <<>>, <<a, b>>, <<>>)
cz(a, b)      == Instr("cz", <<>>, <<a, b>>, <<>>)
swap(a, b)    == Instr("swap", <<>>, <<a, b>>, <<>>)
measure(q, c) == Instr("measure", <<>>, <<q>>, <<c>>)

(***************************************************************************)
(* Register utilities.                                                     *)
(***************************************************************************)
\* Result: ok (FALSE when add_register raised), the circuit afterwards, the
\* value returned as creg, and reg_added.
get_cregs(c, creg) ==
    LET has_it == IF creg.t = "name" THEN has_creg(c, Reg(creg.name, 2))
                  ELSE IF creg.t = "reg" THEN has_creg(c, RegOf(creg))
                  ELSE FALSE
        fresh  == Reg("c_epr", 2)
        added  == add_creg(c, fresh)
    IN  IF creg.t = "none" \/ ~has_it
        THEN [ok |-> added.ok, circ |-> added.circ,
              reg |-> HandleRef(fresh), reg_added |-> TRUE]
        ELSE [ok |-> TRUE, circ |-> c, reg |-> creg, reg_added |-> FALSE]

get_qregs(c, qreg) ==
    LET has_it == IF qreg.t = "name" THEN has_qreg(c, Reg(qreg.name, 2))
                  ELSE IF qreg.t = "reg" THEN has_qreg(c, RegOf(qreg))
                  ELSE FALSE
        fresh  == Reg("q_epr", 2)
        added  == add_qreg(c, fresh)
    IN  IF qreg.t = "none" \/ ~has_it
        THEN [ok |-> added.ok, circ |-> added.circ,
              reg |-> HandleRef(fresh), reg_added |-> TRUE]
        ELSE [ok |-> TRUE, circ |-> c, reg |-> qreg, reg_added |-> FALSE]

(***************************************************************************)
(* Protocol builders: each appends its fixed sequence to the data of the   *)
(* circuit it is given.                                                    *)
(***************************************************************************)
setAncilla(tdata, epr0, epr1) ==
    tdata \o << h(epr0), cnot(epr0, epr1) >>

\* The rotation on epr1 by phi/2 instead of -phi/2.
buildRemoteCRZSameSign(tdata, phi, ctrl, targ, epr0, epr1, creg) ==
    tdata \o << rz(phi \div 2, ctrl),
                rz(phi \div 2, targ),
                cnot(ctrl, epr0),
                measure(epr0, creg[1]),
                c_if(x(epr1), creg[1], 1),
                cnot(targ, epr1),
                rz(phi \div 2, epr1),
                h(epr1),
                measure(epr1, creg[2]),
                c_if(z(ctrl), creg[2], 1),
                c_if(z(targ), creg[2], 1) >>

buildRemoteCRZ(tdata, phi, ctrl, targ, epr0, epr1, creg) ==
    tdata \o << rz(phi \div 2, ctrl),
                rz(phi \div 2, targ),
                cnot(ctrl, epr0),
                measure(epr0, creg[1]),
                c_if(x(epr1), creg[1], 1),
                cnot(targ, epr1),
                rz((-phi) \div 2, epr1),
                h(epr1),
                measure(epr1, creg[2]),
                c_if(z(ctrl), creg[2], 1),
                c_if(z(targ), creg[2], 1) >>

buildRemoteZZ(tdata, phi, qb1, qb2, epr0, epr1, creg) ==
    tdata \o << cnot(qb1, epr0),
                cnot(qb2, epr1),
                measure(epr0, creg[1]),
                c_if(x(epr1), creg[2], 1),
                rz(phi, epr1),
                h(epr1),
                measure(epr1, creg[2]),
                c_if(z(qb1), creg[2], 1),
                c_if(z(qb2), creg[2], 1),
                c_if(x(epr0), creg[1], 1),
                c_if(x(epr1), creg[2], 1) >>

\* buildRemoteCX with the second CNOT turned round (targ controlling epr1).
buildRemoteCXWrongTarget(tdata, ctrl, targ, epr0, epr1, creg) ==
    tdata \o << cnot(ctrl, epr0),
                cnot(targ, epr1),
                measure(epr0, creg[1]),
                c_if(x(epr1), creg[1], 1),
                c_if(x(targ), creg[1], 1),
                h(epr1),
                measure(epr1, creg[2]),
                c_if(z(ctrl), creg[2], 1),
                c_if(x(epr0), creg[1], 1),
                c_if(x(epr1), creg[2], 1) >>

buildRemoteCX(tdata, ctrl, targ, epr0, epr1, creg) ==
    tdata \o << cnot(ctrl, epr0),
                cnot(epr1, targ),
                measure(epr0, creg[1]),
                c_if(x(epr1), creg[1], 1),
                c_if(x(targ), creg[1], 1),
                h(epr1),
                measure(epr1, creg[2]),
                c_if(z(ctrl), creg[2], 1),
                c_if(x(epr0), creg[1], 1),
                c_if(x(epr1), creg[2], 1) >>

buildTeleportation(tdata, source, targ, epr0, epr1, creg) ==
    tdata \o << cnot(source, epr0),
                h(source),
                measure(source, creg[1]),
                measure(epr0, creg[2]),
                c_if(x(epr1), creg[2], 1),
                c_if(z(epr1), creg[1], 1),
                c_if(x(source), creg[1], 1),
                c_if(x(epr0), creg[2], 1),
                swap(epr1, targ) >>

(***************************************************************************)
(* addInstr.                                                               *)
(***************************************************************************)
\* Instruction(name, num_qubits, num_clbits, params) of the instrSet table.
InstrSetQubits(name) == IF name = "GenEPR" THEN 2 ELSE 4

\* Result: ok (FALSE when the call raised) and the circuit as the call
\* left it, whatever was appended before a raise included.
addInstr(c, name, qb1, qb2, params, epr_creg, epr_qreg) ==
    LET gc == get_cregs(c, epr_creg)
        gq == get_qregs(gc.circ, epr_qreg)
        creg == gc.reg
        qreg == gq.reg
        qargs == << qb1, qb2, IterOf(qreg)[1], IterOf(qreg)[2] >>
        gen == append(gq.circ, Instr("GenEPR", params, IterOf(qreg), <<>>),
                      InstrSetQubits("GenEPR"))
        mac == append(gen.circ, Instr(name, params, qargs, IterOf(creg)),
                      InstrSetQubits(name))
    IN  IF ~gc.ok THEN [ok |-> FALSE, circ |-> c]
        ELSE IF ~gq.ok THEN [ok |-> FALSE, circ |-> gc.circ]
        ELSE IF ~gen.ok THEN [ok |-> FALSE, circ |-> gq.circ]
        ELSE IF name = "GenEPR" THEN [ok |-> TRUE, circ |-> gen.circ]
        ELSE IF name \notin MacroNames THEN [ok |-> FALSE, circ |-> gen.circ]
        ELSE mac

(***************************************************************************)
(* decompose.                                                              *)
(***************************************************************************)
\* args = op[0].params + op[1] + [op[2]]
ArgsOf(op) == op.params \o op.qargs \o << op.cargs >>

\* A buildRemoteCX that takes surplus arguments (*extra) instead of raising.
FitsBuilderIgnoresExtra(name, args) ==
    CASE name = "RemoteCX"  -> Len(args) >= 5
      [] name = "RemoteRZZ" -> Len(args) = 6
      [] name = "RemoteCRZ" -> Len(args) = 6
      [] name = "Teleport"  -> Len(args) = 5
      [] name = "GenEPR"    -> Len(args) \in {2, 3}
      [] OTHER              -> TRUE

\* builder(tempCirc, *args): the call raises when args does not fit the
\* builder's parameter list (setAncilla's creg is optional).
FitsBuilder(name, args) ==
    CASE name = "RemoteCX"  -> Len(args) = 5
      [] name = "RemoteRZZ" -> Len(args) = 6
      [] name = "RemoteCRZ" -> Len(args) = 6
      [] name = "Teleport"  -> Len(args) = 5
      [] name = "GenEPR"    -> Len(args) \in {2, 3}
      [] OTHER              -> TRUE

\* The chain of name tests; a name in gates that no branch handles builds
\* nothing.
Dispatch(tdata, name, args) ==
    CASE name = "RemoteCX"  ->
           buildRemoteCX(tdata, args[1], args[2], args[3], args[4], args[5])
      [] name = "RemoteRZZ" ->
           buildRemoteZZ(tdata, args[1], args[2], args[3], args[4], args[5], args[6])
      [] name = "RemoteCRZ" ->
           buildRemoteCRZ(tdata, args[1], args[2], args[3], args[4], args[5], args[6])
      [] name = "Teleport"  ->
           buildTeleportation(tdata, args[1], args[2], args[3], args[4], args[5])
      [] name = "GenEPR"    ->
           setAncilla(tdata, args[1], args[2])
      [] OTHER              -> tdata

\* idxStart = idx: the next slice would begin at the replaced instruction.
NextStartKeepsOp(idx) == idx

\* idxStart = idx+1, one-based: the slice circ[idxStart:idx] of the source
\* is SubSeq(cdata, idxStart, idx - 1) here.
NextStart(idx) == idx + 1

\* The scratch circuit not emptied after a splice.
ResetTempKeeps(tdata) == tdata

\* tempCirc = emptyCirc.copy() after a splice: the scratch circuit is empty
\* again.
ResetTemp(tdata) == << >>

\* The instructions after the last replaced one never copied.
TailFlushMissing(cdata, idxStart) == << >>

\* circ[idxStart:] after the loop: what follows the last replaced
\* instruction, the whole circuit when nothing was replaced.
TailFlush(cdata, idxStart) == SubSeq(cdata, idxStart, Len(cdata))

\* The loop body from position idx on; chunks is circuitChunks, tempCirc the
\* data of the scratch circuit.
RECURSIVE decomposeLoop(_, _, _, _, _, _)
decomposeLoop(cdata, gates, idx, idxStart, chunks, tempCirc) ==
    IF idx > Len(cdata)
    THEN [ok |-> TRUE, data |-> chunks \o TailFlush(cdata, idxStart)]
    ELSE LET op == cdata[idx]
             args == ArgsOf(op)
             flushed == chunks \o SubSeq(cdata, idxStart, idx - 1)
             built == Dispatch(tempCirc, op.name, args)
         IN  IF op.name \in gates
             THEN IF ~FitsBuilder(op.name, args)
                  THEN [ok |-> FALSE, data |-> cdata]
                  ELSE decomposeLoop(cdata, gates, idx + 1, NextStart(idx),
                                     flushed \o built, ResetTemp(built))
             ELSE decomposeLoop(cdata, gates, idx + 1, idxStart, chunks, tempCirc)

\* A decompose that opens as addInstr and autosubstitute do, with
\* get_cregs(circ, None).
decomposeProvisions(c, gates) ==
    LET gc == get_cregs(c, NoneRef)
        r  == decomposeLoop(c.data, gates, 1, 1, << >>, << >>)
    IN  [ok |-> r.ok, circ |-> [gc.circ EXCEPT !.data = r.data]]

\* Result: ok (FALSE when a builder call raised, which leaves circ.data
\* unassigned) and the circuit afterwards.
decompose(c, gates) ==
    LET r == decomposeLoop(c.data, gates, 1, 1, << >>, << >>)
    IN  [ok |-> r.ok, circ |-> [c EXCEPT !.data = r.data]]

(***************************************************************************)
(* autosubstitute.                                                         *)
(***************************************************************************)
\* The first branch of the test alone: operands in (reglist[0], reglist[1])
\* order.
StraddlesInOrderOnly(op, reglist) ==
    op.qargs[1] \in reglist[1] /\ op.qargs[2] \in reglist[2]

\* The test on a two-qubit instruction: one operand in reglist[0] and the
\* other in reglist[1], either way round.
Straddles(op, reglist) ==
    \/ op.qargs[1] \in reglist[1] /\ op.qargs[2] \in reglist[2]
    \/ op.qargs[2] \in reglist[1] /\ op.qargs[1] \in reglist[2]

\* The two operands of the gate handed over in the opposite order.
SubstituteCXSwapped(temp, op, creg, qreg) ==
    addInstr(temp, "RemoteCX", op.qargs[2], op.qargs[1], << >>, creg, qreg)

\* addInstr(tempCirc, 'RemoteCX', op[1][0], op[1][1], [], creg, qreg)
SubstituteCX(temp, op, creg, qreg) ==
    addInstr(temp, "RemoteCX", op.qargs[1], op.qargs[2], << >>, creg, qreg)

\* idxStart = idx in the substitution loop.
NextStartSubKeepsOp(idx) == idx

\* idxStart = idx+1 of this loop.
NextStartSub(idx) == idx + 1

\* tempCirc = emptyCirc.copy() of this loop.
ResetTempSub(tdata) == << >>

\* The loop body from position idx on.  c0 is the circuit after the
\* registers were resolved; the scratch circuit is a copy of it with the
\* data in tempCirc.
RECURSIVE autoLoop(_, _, _, _, _, _, _, _, _)
autoLoop(c0, reglist, gates, creg, qreg, idx, idxStart, chunks, tempCirc) ==
    IF idx > Len(c0.data)
    THEN [ok |-> TRUE, data |-> chunks \o SubSeq(c0.data, idxStart, Len(c0.data))]
    ELSE LET op == c0.data[idx]
             flushed == chunks \o SubSeq(c0.data, idxStart, idx - 1)
             temp == [c0 EXCEPT !.data = tempCirc]
             sub == IF op.name = "cx"
                    THEN SubstituteCX(temp, op, creg, qreg)
                    ELSE [ok |-> TRUE, circ |-> temp]
         IN  IF Len(op.qargs) = 2 /\ op.name \in gates /\ Straddles(op, reglist)
             THEN IF ~sub.ok
                  THEN [ok |-> FALSE, data |-> c0.data]
                  ELSE autoLoop(c0, reglist, gates, creg, qreg, idx + 1,
                                NextStartSub(idx), flushed \o sub.circ.data,
                                ResetTempSub(sub.circ.data))
             ELSE autoLoop(c0, reglist, gates, creg, qreg, idx + 1,
                           idxStart, chunks, tempCirc)

\* Result: ok (FALSE when the call raised) and the circuit afterwards.
autosubstitute(c, reglist, gates, epr_qreg, epr_creg) ==
    LET gc == get_cregs(c, epr_creg)
        gq == get_qregs(gc.circ, epr_qreg)
        r  == autoLoop(gq.circ, reglist, gates, gc.reg, gq.reg, 1, 1, << >>, << >>)
    IN  IF ~gc.ok THEN [ok |-> FALSE, circ |-> c]
        ELSE IF ~gq.ok THEN [ok |-> FALSE, circ |-> gc.circ]
        ELSE [ok |-> r.ok, circ |-> [gq.circ EXCEPT !.data = r.data]]

(***************************************************************************)
(* The state machine: one circuit, the calls a caller makes on it.         *)
(* circ is the circuit, pre the circuit as it was before the last call,    *)
(* last the last call with its inputs and outcome.                         *)
(***************************************************************************)
\* What decompose keeps of the autosubstitute call it follows.
NoPrior ==
    [op |-> "init", ok |-> TRUE, gates |-> {}, reglist |-> << {}, {} >>]

NoCall ==
    [op |-> "init", ok |-> TRUE, name |-> "", qargs |-> << >>, params |-> << >>,
     creg |-> NoneRef, qreg |-> NoneRef, gates |-> {}, reglist |-> << {}, {} >>,
     added |-> FALSE, after |-> NoPrior]

Q0 == <<"q", 0>>
Q1 == <<"q", 1>>
Q2 == <<"q", 2>>

\* Gates the caller puts on the data qubits.
UserGates == {h(Q0), cnot(Q0, Q1), cnot(Q1, Q0), cnot(Q1, Q2), cz(Q0, Q1)}

\* The two data qubits a macro-operation is asked for.
MacroPairs == {<<Q0, Q1>>}

\* Register references given to get_cregs and get_qregs: None, objects and
\* names of registers the circuit may or may not hold.
CRefs ==
    {NoneRef, HandleRef(EprC), HandleRef(Reg("c_epr", 2)),
     NameRef("ec"), NameRef("c"), NameRef("c_epr")}
QRefs ==
    {NoneRef, HandleRef(EprQ), HandleRef(Reg("q_epr", 2)),
     NameRef("eq"), NameRef("q"), NameRef("q_epr")}

\* (epr_creg, epr_qreg) as given to addInstr and autosubstitute.
RefPairs ==
    {<<NoneRef, NoneRef>>, <<HandleRef(EprC), HandleRef(EprQ)>>,
     <<NameRef("ec"), HandleRef(EprQ)>>, <<NameRef("ec"), NameRef("eq")>>}

AddNames == MacroNames \cup {"Bogus"}

DecomposeGates ==
    {MacroNames, {"RemoteCX"}, {"GenEPR"}, {"RemoteCRZ", "RemoteRZZ", "Teleport"}, {}}

SubstituteGates == {{"cx"}, {"cz"}, {"cx", "cz"}}

\* (A, B): disjoint sets of data qubits.
Partitions ==
    {<<{Q0}, {Q1}>>, <<{Q0, Q1}, {Q2}>>, <<{Q2}, {Q0, Q1}>>}

\* The circuit as constructed: no instruction, the data registers, and
\* possibly registers the caller made for the pair.
Init ==
    /\ \E qs \in {<<UserQ>>, <<UserQ, EprQ>>}, cs \in {<<UserC>>, <<UserC, EprC>>} :
          circ = [data |-> << >>, qregs |-> qs, cregs |-> cs]
    /\ pre = circ
    /\ last = NoCall

\* The caller applies a gate: circ.h(..), circ.cx(..), circ.cz(..).
GateOf(gateset) ==
    /\ Len(circ.data) < MaxLen
    /\ \E g \in gateset :
          /\ circ' = [circ EXCEPT !.data = Append(@, g)]
          /\ last' = [NoCall EXCEPT !.op = "gate", !.name = g.name, !.qargs = g.qargs]
    /\ pre' = circ

Gate == GateOf(UserGates)

\* The caller appends a macro-operation itself, on two-unit registers of
\* the circuit: circ.append(Instruction(name, n, m, params), qargs, cargs).
AppendMacro ==
    /\ Len(circ.data) < MaxLen
    /\ \E name \in MacroNames, p \in MacroPairs, ps \in ParamLists,
          i \in DOMAIN circ.qregs, j \in DOMAIN circ.cregs :
          LET epr   == IterOf(HandleRef(circ.qregs[i]))
              qargs == IF name = "GenEPR" THEN epr ELSE << p[1], p[2] >> \o epr
              cargs == IF name = "GenEPR" THEN << >>
                       ELSE IterOf(HandleRef(circ.cregs[j]))
              r == append(circ, Instr(name, ps, qargs, cargs), InstrSetQubits(name))
          IN  /\ circ.qregs[i].size = 2
              /\ circ.cregs[j].size = 2
              /\ r.ok
              /\ circ' = r.circ
              /\ last' = [NoCall EXCEPT !.op = "append", !.name = name,
                                        !.qargs = qargs, !.params = ps]
    /\ pre' = circ

GetCregs ==
    /\ \E ref \in CRefs :
          LET r == get_cregs(circ, ref)
          IN  /\ circ' = r.circ
              /\ last' = [NoCall EXCEPT !.op = "get_cregs", !.ok = r.ok,
                                        !.creg = ref, !.added = r.reg_added]
    /\ pre' = circ

GetQregs ==
    /\ \E ref \in QRefs :
          LET r == get_qregs(circ, ref)
          IN  /\ circ' = r.circ
              /\ last' = [NoCall EXCEPT !.op = "get_qregs", !.ok = r.ok,
                                        !.qreg = ref, !.added = r.reg_added]
    /\ pre' = circ

\* addInstr(circ, name, qb1, qb2, params, epr_creg, epr_qreg)
AddInstrOf(names, refpairs) ==
    /\ Len(circ.data) < MaxLen
    /\ \E name \in names, p \in MacroPairs, ps \in ParamLists, refs \in refpairs :
          LET r == addInstr(circ, name, p[1], p[2], ps, refs[1], refs[2])
          IN  /\ circ' = r.circ
              /\ last' = [NoCall EXCEPT !.op = "addInstr", !.ok = r.ok,
                                        !.name = name, !.qargs = p, !.params = ps,
                                        !.creg = refs[1], !.qreg = refs[2]]
    /\ pre' = circ

AddInstr == AddInstrOf(AddNames, RefPairs)

\* The autosubstitute call that came just before, if the last call was one.
Prior ==
    IF last.op = "autosubstitute"
    THEN [op |-> last.op, ok |-> last.ok, gates |-> last.gates,
          reglist |-> last.reglist]
    ELSE NoPrior

\* decompose(circ, gates)
DecomposeOf(gatesets) ==
    /\ \E gates \in gatesets :
          LET r == decompose(circ, gates)
          IN  /\ circ' = r.circ
              /\ last' = [NoCall EXCEPT !.op = "decompose", !.ok = r.ok,
                                        !.gates = gates, !.after = Prior]
    /\ pre' = circ

Decompose == DecomposeOf(DecomposeGates)

\* autosubstitute(circ, reglist, gates, epr_qreg, epr_creg)
AutosubstituteOf(partitions, gatesets, refpairs) ==
    /\ Len(circ.data) <= MaxLen
    /\ \E reglist \in partitions, gates \in gatesets, refs \in refpairs :
          LET r == autosubstitute(circ, reglist, gates, refs[2], refs[1])
          IN  /\ circ' = r.circ
              /\ last' = [NoCall EXCEPT !.op = "autosubstitute", !.ok = r.ok,
                                        !.gates = gates, !.reglist = reglist,
                                        !.creg = refs[1], !.qreg = refs[2]]
    /\ pre' = circ

Autosubstitute == AutosubstituteOf(Partitions, SubstituteGates, RefPairs)

\* The register utilities called on their own.
NextRegistry == GetCregs \/ GetQregs
SpecRegistry == Init /\ [][NextRegistry]_vars

\* A circuit is built from gates and addInstr calls.
NextAdd == Gate \/ AddInstr
SpecAdd == Init /\ [][NextAdd]_vars

\* A circuit of gates and macro-operations is built, then expanded.
NextDecompose == Gate \/ AppendMacro \/ Decompose
SpecDecompose == Init /\ [][NextDecompose]_vars

\* A circuit of gates is built, then scanned for straddling gates.
NextAuto == Gate \/ Autosubstitute
SpecAuto == Init /\ [][NextAuto]_vars

\* Calls in sequence on one circuit: gates and macro-operations are added,
\* straddling CNOTs substituted, and the circuit expanded with the default
\* kinds.
SeqGates == {h(Q0), cnot(Q0, Q1), cnot(Q1, Q0)}
SeqNames == MacroNames
SeqRefPairs == {<<NoneRef, NoneRef>>, <<HandleRef(EprC), HandleRef(EprQ)>>}
\* The second partition holds an ancilla of the register eq.
SeqPartitions == {<<{Q0}, {Q1}>>, <<{Q0}, {Q1, <<"eq", 0>>}>>}

GateSeq == GateOf(SeqGates)
AddInstrSeq == AddInstrOf(SeqNames, SeqRefPairs)
AutosubstituteSeq == AutosubstituteOf(SeqPartitions, {{"cx"}}, SeqRefPairs)
DecomposeSeq == DecomposeOf({MacroNames})

NextSeq == GateSeq \/ AddInstrSeq \/ AutosubstituteSeq \/ DecomposeSeq
SpecSeq == Init /\ [][NextSeq]_vars

(***************************************************************************)
(* Properties of decompose.                                                *)
(***************************************************************************)
IsCall(op) == last.op = op /\ last.ok

\* The protocol expansion of one macro-operation.
Expansion(op) == Dispatch(<< >>, op.name, ArgsOf(op))

\* s with every instruction of a kind in kinds replaced, where it stands,
\* by its expansion.
RECURSIVE ExpandAll(_, _)
ExpandAll(s, kinds) ==
    IF s = << >> THEN << >>
    ELSE (IF Head(s).name \in kinds THEN Expansion(Head(s)) ELSE << Head(s) >>)
         \o ExpandAll(Tail(s), kinds)

\* C1: when decompose(C, kinds) returns, the circuit holds C with each
\* instruction of a kind in kinds replaced at its own position by one copy
\* of its expansion, and every other instruction copied once, in order.
C1_DecomposeKeepsOrder ==
    IsCall("decompose") => circ.data = ExpandAll(pre.data, last.gates)

\* A gate, an expanded macro-operation, then a macro-operation of a kind
\* left out of kinds.
C1_Witness ==
    /\ IsCall("decompose")
    /\ Len(pre.data) = 3
    /\ pre.data[1].name \notin MacroNames
    /\ pre.data[2].name \in last.gates
    /\ pre.data[3].name \in MacroNames \ last.gates

\* C2: when decompose(C, kinds) returns, no instruction of the circuit has
\* a kind in kinds.
C2_NoResidualMacro ==
    IsCall("decompose") =>
        \A i \in DOMAIN circ.data : circ.data[i].name \notin last.gates

C2_Witness ==
    /\ IsCall("decompose")
    /\ \E i, j \in DOMAIN pre.data :
          /\ i # j
          /\ pre.data[i].name \in last.gates
          /\ pre.data[j].name \in last.gates
          /\ pre.data[i].name # pre.data[j].name

\* C6: decompose of a circuit holding only RemoteCX(q0,q1,e0,e1; c0,c1)
\* leaves exactly the ten instructions of the gate-teleportation protocol.
C6_RemoteCXExpansion ==
    ( /\ IsCall("decompose")
      /\ "RemoteCX" \in last.gates
      /\ Len(pre.data) = 1
      /\ pre.data[1].name = "RemoteCX" ) =>
        LET q0 == pre.data[1].qargs[1]
            q1 == pre.data[1].qargs[2]
            e0 == pre.data[1].qargs[3]
            e1 == pre.data[1].qargs[4]
            c0 == pre.data[1].cargs[1]
            c1 == pre.data[1].cargs[2]
        IN  circ.data =
              << Instr("cx", << >>, <<q0, e0>>, << >>),
                 Instr("cx", << >>, <<e1, q1>>, << >>),
                 Instr("measure", << >>, <<e0>>, <<c0>>),
                 [Instr("x", << >>, <<e1>>, << >>) EXCEPT !.cond = <<c0, 1>>],
                 [Instr("x", << >>, <<q1>>, << >>) EXCEPT !.cond = <<c0, 1>>],
                 Instr("h", << >>, <<e1>>, << >>),
                 Instr("measure", << >>, <<e1>>, <<c1>>),
                 [Instr("z", << >>, <<q0>>, << >>) EXCEPT !.cond = <<c1, 1>>],
                 [Instr("x", << >>, <<e0>>, << >>) EXCEPT !.cond = <<c0, 1>>],
                 [Instr("x", << >>, <<e1>>, << >>) EXCEPT !.cond = <<c1, 1>>] >>

C6_Witness ==
    /\ IsCall("decompose")
    /\ "RemoteCX" \in last.gates
    /\ Len(pre.data) = 1
    /\ pre.data[1].name = "RemoteCX"
    /\ Len(circ.data) = 10

(***************************************************************************)
(* Properties of the register utilities and of addInstr.                   *)
(***************************************************************************)
\* ref names, or is, a register among regs.
RefExists(ref, regs) ==
    \/ ref.t = "name" /\ \E i \in DOMAIN regs : regs[i].name = ref.name
    \/ ref.t = "reg" /\ \E i \in DOMAIN regs : regs[i] = RegOf(ref)

\* The register of regs that ref names or is.
RefTarget(ref, regs) ==
    CHOOSE r \in {regs[i] : i \in DOMAIN regs} : r.name = ref.name

\* C9: a call of get_cregs or get_qregs with a reference, by name or by
\* object, to a register the circuit already holds reports reg_added =
\* False, adds no register, and so does the same call made again.
C9_RegistryIdempotent ==
    /\ (last.op = "get_cregs" /\ RefExists(last.creg, pre.cregs)) =>
          /\ last.ok /\ ~last.added
          /\ Len(circ.cregs) = Len(pre.cregs)
          /\ get_cregs(circ, last.creg).ok
          /\ ~get_cregs(circ, last.creg).reg_added
          /\ Len(get_cregs(circ, last.creg).circ.cregs) = Len(pre.cregs)
    /\ (last.op = "get_qregs" /\ RefExists(last.qreg, pre.qregs)) =>
          /\ last.ok /\ ~last.added
          /\ Len(circ.qregs) = Len(pre.qregs)
          /\ get_qregs(circ, last.qreg).ok
          /\ ~get_qregs(circ, last.qreg).reg_added
          /\ Len(get_qregs(circ, last.qreg).circ.qregs) = Len(pre.qregs)

\* C3: addInstr with a name outside the table raises and leaves the
\* instruction list as it was before the call.
C3_UnknownNameLeavesData ==
    (last.op = "addInstr" /\ last.name \notin MacroNames) =>
        (~last.ok /\ circ.data = pre.data)

\* The register a reference stands for once addInstr has resolved it.
ResolvedReg(ref, regs, fresh) ==
    IF ref.t = "none" THEN fresh ELSE RefTarget(ref, regs)

\* C10: addInstr with a name of the table and each register reference
\* absent, an object or a name of a register of the circuit appends, after
\* the instructions already there, GenEPR on the two qubits of the resolved
\* qubit register and then (unless the name is GenEPR) one instruction of
\* that name on [qb1, qb2, qreg[0], qreg[1]] and the two bits of the
\* resolved classical register.
C10_AddMacroShape ==
    ( /\ last.op = "addInstr"
      /\ last.name \in MacroNames
      /\ last.creg.t = "none" \/ RefExists(last.creg, pre.cregs)
      /\ last.qreg.t = "none" \/ RefExists(last.qreg, pre.qregs) ) =>
        LET qr == ResolvedReg(last.qreg, pre.qregs, Reg("q_epr", 2))
            cr == ResolvedReg(last.creg, pre.cregs, Reg("c_epr", 2))
            e  == IterOf(HandleRef(qr))
            n  == Len(pre.data)
        IN  /\ last.ok
            /\ Len(circ.data) = n + (IF last.name = "GenEPR" THEN 1 ELSE 2)
            /\ SubSeq(circ.data, 1, n) = pre.data
            /\ circ.data[n + 1].name = "GenEPR"
            /\ circ.data[n + 1].qargs = << e[1], e[2] >>
            /\ circ.data[n + 1].cargs = << >>
            /\ last.name # "GenEPR" =>
                  /\ circ.data[n + 2].name = last.name
                  /\ circ.data[n + 2].qargs = << last.qargs[1], last.qargs[2], e[1], e[2] >>
                  /\ circ.data[n + 2].cargs = IterOf(HandleRef(cr))

(***************************************************************************)
(* Properties of autosubstitute.                                           *)
(***************************************************************************)
\* op has two qubit operands, one in A and the other in B.
SpansPartitions(op, reglist) ==
    /\ Len(op.qargs) = 2
    /\ \E a \in reglist[1], b \in reglist[2] :
          {op.qargs[1], op.qargs[2]} = {a, b}

\* op is of a targeted kind and spans the partitions of the last call.
ShouldReplace(op) ==
    op.name \in last.gates /\ SpansPartitions(op, last.reglist)

\* The number of instructions that stand in the output for op: itself, or
\* the two addInstr appends for a CNOT, or nothing for a kind addInstr is
\* never called for.
Width(op) ==
    IF ShouldReplace(op) THEN (IF op.name = "cx" THEN 2 ELSE 0) ELSE 1

\* Where in the output the instructions standing for pre.data[i] begin.
RECURSIVE OutPos(_)
OutPos(i) == IF i = 1 THEN 1 ELSE OutPos(i - 1) + Width(pre.data[i - 1])

Untouched(i) ==
    OutPos(i) <= Len(circ.data) /\ circ.data[OutPos(i)] = pre.data[i]

\* The registers the inserted macro-operations use.
SubQreg ==
    IF last.qreg.t = "reg" /\ RefExists(last.qreg, pre.qregs)
    THEN RegOf(last.qreg) ELSE Reg("q_epr", 2)

SubCreg ==
    IF last.creg.t = "reg" /\ RefExists(last.creg, pre.cregs)
    THEN RegOf(last.creg) ELSE Reg("c_epr", 2)

\* C4: autosubstitute asked to substitute a kind other than CNOT raises; it
\* does not return having met a straddling two-qubit instruction of such a
\* kind.
C4_UnsupportedKindRaises ==
    ( /\ last.op = "autosubstitute"
      /\ \E i \in DOMAIN pre.data :
            /\ pre.data[i].name \in last.gates \ {"cx"}
            /\ SpansPartitions(pre.data[i], last.reglist) ) =>
        ~last.ok

\* C5: when autosubstitute returns, an instruction is left where it stood
\* exactly if it is not a two-qubit instruction of a targeted kind with one
\* operand in A and the other in B.
C5_ReplacedIffSpans ==
    IsCall("autosubstitute") =>
        \A i \in DOMAIN pre.data : Untouched(i) <=> ~ShouldReplace(pre.data[i])

\* A straddling gate given as (B, A), and a targeted gate that does not
\* straddle.
C5_Witness ==
    /\ IsCall("autosubstitute")
    /\ \E i, j \in DOMAIN pre.data :
          /\ ShouldReplace(pre.data[i])
          /\ pre.data[i].qargs[1] \in last.reglist[2]
          /\ pre.data[j].name \in last.gates
          /\ Len(pre.data[j].qargs) = 2
          /\ ~SpansPartitions(pre.data[j], last.reglist)

\* C7: with gates = ['cx'], each straddling CNOT(a, b) is replaced, where it
\* stood, by GenEPR(e0, e1) followed by RemoteCX(a, b, e0, e1; creg), a and
\* b in the order of the CNOT, and that CNOT is nowhere in the output.
C7_SubstitutionResult ==
    (IsCall("autosubstitute") /\ last.gates = {"cx"}) =>
        \A i \in DOMAIN pre.data :
            ShouldReplace(pre.data[i]) =>
                LET e == IterOf(HandleRef(SubQreg))
                    a == pre.data[i].qargs[1]
                    b == pre.data[i].qargs[2]
                    p == OutPos(i)
                IN  /\ p + 1 <= Len(circ.data)
                    /\ circ.data[p] = Instr("GenEPR", << >>, << e[1], e[2] >>, << >>)
                    /\ circ.data[p + 1] =
                          Instr("RemoteCX", << >>, << a, b, e[1], e[2] >>,
                                IterOf(HandleRef(SubCreg)))
                    /\ \A k \in DOMAIN circ.data : circ.data[k] # pre.data[i]

\* CNOT(q0, q1) and CNOT(q1, q0) both replaced in one call.
C7_Witness ==
    /\ IsCall("autosubstitute")
    /\ last.gates = {"cx"}
    /\ \E i, j \in DOMAIN pre.data :
          /\ ShouldReplace(pre.data[i])
          /\ ShouldReplace(pre.data[j])
          /\ pre.data[i].qargs = << pre.data[j].qargs[2], pre.data[j].qargs[1] >>

\* C8: when autosubstitute returns, every instruction that is not replaced
\* stands once in the output, unchanged, in its place between the
\* instructions and inserted macro-operations around it.
C8_PassThrough ==
    IsCall("autosubstitute") =>
        /\ Len(circ.data) = OutPos(Len(pre.data) + 1) - 1
        /\ \A i \in DOMAIN pre.data :
              ~ShouldReplace(pre.data[i]) => circ.data[OutPos(i)] = pre.data[i]

\* A kept instruction on either side of a replaced one.
C8_Witness ==
    /\ IsCall("autosubstitute")
    /\ Len(pre.data) = 3
    /\ ~ShouldReplace(pre.data[1])
    /\ ShouldReplace(pre.data[2])
    /\ pre.data[2].name = "cx"
    /\ ~ShouldReplace(pre.data[3])

(***************************************************************************)
(* Properties of decompose on malformed and on already expanded circuits.  *)
(***************************************************************************)
\* The number of parameters and of qubit operands a macro-operation of each
\* kind carries.
ParamArity(name) == IF name \in {"RemoteCRZ", "RemoteRZZ"} THEN 1 ELSE 0
OperandArity(name) == IF name = "GenEPR" THEN 2 ELSE 4

Malformed(op) ==
    /\ op.name \in MacroNames
    /\ \/ Len(op.params) # ParamArity(op.name)
       \/ Len(op.qargs) # OperandArity(op.name)

C12_SecondDecomposeFixes ==
    ( /\ IsCall("decompose")
      /\ \A i \in DOMAIN pre.data : pre.data[i].name \notin last.gates ) =>
        circ.data = pre.data

\* The circuit before the call holds the measurements of an expansion, which
\* only an earlier decompose puts there, and nothing of a kind in K.
C12_Witness ==
    /\ IsCall("decompose")
    /\ last.gates = MacroNames
    /\ \A i \in DOMAIN pre.data : pre.data[i].name \notin last.gates
    /\ \E i \in DOMAIN pre.data : pre.data[i].name = "measure"
    /\ circ.data = pre.data

(***************************************************************************)
(* Properties of calls in sequence.                                        *)
(***************************************************************************)
\* Every register of before is in after, as it was and in the same order.
KeepsRegisters(before, after) ==
    LET WasThere(r) == \E i \in DOMAIN before : before[i] = r
    IN  SelectSeq(after, WasThere) = before

\* C13: each add_macro, autosubstitute and decompose call, whether it
\* returns or raises, keeps every register the circuit had, with its name,
\* length and place among the others; decompose adds no register, and
\* add_macro and autosubstitute add at most one qubit register and at most
\* one classical register.
C13_RegisterFrame ==
    last.op \in {"addInstr", "autosubstitute", "decompose"} =>
        /\ KeepsRegisters(pre.qregs, circ.qregs)
        /\ KeepsRegisters(pre.cregs, circ.cregs)
        /\ Len(circ.qregs) <= Len(pre.qregs) + 1
        /\ Len(circ.cregs) <= Len(pre.cregs) + 1
        /\ last.op = "decompose" =>
              (circ.qregs = pre.qregs /\ circ.cregs = pre.cregs)

\* An autosubstitute call that provisioned both registers on a circuit
\* holding two of each kind and inserted two macro-operations.
C13_Witness ==
    /\ IsCall("autosubstitute")
    /\ Len(pre.qregs) = 2 /\ Len(circ.qregs) = 3
    /\ Len(pre.cregs) = 2 /\ Len(circ.cregs) = 3
    /\ \E i, j \in DOMAIN circ.data :
          /\ i < j
          /\ circ.data[i].name = "RemoteCX"
          /\ circ.data[j].name = "RemoteCX"

\* The registers of regs that carry the name n.
Named(regs, n) == {i \in DOMAIN regs : regs[i].name = n}

\* C14: after add_macro and autosubstitute calls made with both register
\* references absent the circuit holds at most one qubit register named
\* q_epr and at most one classical register named c_epr; the first such call
\* provisions them and a later one goes through on them without
\* provisioning again.
C14_ProvisionedOnce ==
    ( /\ last.op \in {"addInstr", "autosubstitute"}
      /\ last.creg = NoneRef
      /\ last.qreg = NoneRef ) =>
        /\ Cardinality(Named(circ.qregs, "q_epr")) <= 1
        /\ Cardinality(Named(circ.cregs, "c_epr")) <= 1
        /\ ( Named(pre.qregs, "q_epr") # {} /\ Named(pre.cregs, "c_epr") # {} ) =>
              /\ last.ok
              /\ circ.qregs = pre.qregs
              /\ circ.cregs = pre.cregs

\* The kinds that stand for a protocol using an entangled pair.
ProtocolKinds == MacroNames \ {"GenEPR"}

\* Where the expansion of the instruction at place i of the circuit before
\* the call begins in the circuit after it.
ExpansionStart(i) == Len(ExpandAll(SubSeq(pre.data, 1, i - 1), MacroNames)) + 1

\* In the circuit after the call, the expansion of the macro-operation at
\* place i comes right after H(e0); CNOT(e0, e1) on its own two ancillas.
PairPreparedBefore(i) ==
    LET op == pre.data[i]
        e0 == op.qargs[3]
        e1 == op.qargs[4]
        p  == ExpansionStart(i)
        n  == Len(Expansion(op))
    IN  /\ p >= 3
        /\ p + n - 1 <= Len(circ.data)
        /\ circ.data[p - 2] = Instr("h", << >>, <<e0>>, << >>)
        /\ circ.data[p - 1] = Instr("cx", << >>, <<e0, e1>>, << >>)
        /\ SubSeq(circ.data, p, p + n - 1) = Expansion(op)

\* C15: decompose with the default kinds, called on a circuit built by
\* add_macro calls (well-formed, names other than GenEPR) and autosubstitute
\* insertions, returns a circuit in which every protocol expansion is
\* immediately preceded by H(e0); CNOT(e0, e1) on the two ancillas the
\* expansion uses.
C15_FreshPairBeforeUse ==
    ( /\ last.op = "decompose"
      /\ last.gates = MacroNames
      /\ \A i \in DOMAIN pre.data :
            pre.data[i].name \in ProtocolKinds => ~Malformed(pre.data[i]) ) =>
        /\ last.ok
        /\ \A i \in DOMAIN pre.data :
              pre.data[i].name \in ProtocolKinds => PairPreparedBefore(i)

(***************************************************************************)
(* Properties of the protocol expansions.                                  *)
(***************************************************************************)
\* C16: decompose binds the parameters of a macro-operation first, then its
\* four qubit operands, then its classical register: a circuit holding only
\* RemoteCRZ(phi; ctrl, targ, e0, e1; c0, c1) is left with exactly
\* RZ(phi/2) ctrl; RZ(phi/2) targ; CNOT(ctrl, e0); measure(e0 -> c0);
\* cond[c0=1] X(e1); CNOT(targ, e1); RZ(-phi/2) e1; H(e1); measure(e1 -> c1);
\* cond[c1=1] Z(ctrl); cond[c1=1] Z(targ).
C16_RemoteCRZExpansion ==
    ( /\ IsCall("decompose")
      /\ "RemoteCRZ" \in last.gates
      /\ Len(pre.data) = 1
      /\ pre.data[1].name = "RemoteCRZ" ) =>
        LET phi  == pre.data[1].params[1]
            ctrl == pre.data[1].qargs[1]
            targ == pre.data[1].qargs[2]
            e0 == pre.data[1].qargs[3]
            e1 == pre.data[1].qargs[4]
            c0 == pre.data[1].cargs[1]
            c1 == pre.data[1].cargs[2]
        IN  circ.data =
              << Instr("rz", << phi \div 2 >>, <<ctrl>>, << >>),
                 Instr("rz", << phi \div 2 >>, <<targ>>, << >>),
                 Instr("cx", << >>, <<ctrl, e0>>, << >>),
                 Instr("measure", << >>, <<e0>>, <<c0>>),
                 [Instr("x", << >>, <<e1>>, << >>) EXCEPT !.cond = <<c0, 1>>],
                 Instr("cx", << >>, <<targ, e1>>, << >>),
                 Instr("rz", << 0 - (phi \div 2) >>, <<e1>>, << >>),
                 Instr("h", << >>, <<e1>>, << >>),
                 Instr("measure", << >>, <<e1>>, <<c1>>),
                 [Instr("z", << >>, <<ctrl>>, << >>) EXCEPT !.cond = <<c1, 1>>],
                 [Instr("z", << >>, <<targ>>, << >>) EXCEPT !.cond = <<c1, 1>>] >>

C16_Witness ==
    /\ IsCall("decompose")
    /\ "RemoteCRZ" \in last.gates
    /\ Len(pre.data) = 1
    /\ pre.data[1].name = "RemoteCRZ"
    /\ pre.data[1].params = << 2 >>
    /\ Len(circ.data) = 11

\* The instruction at place k of the circuit is conditioned on a bit that an
\* earlier instruction of the circuit measures into.
MeasuredBefore(k) ==
    \E j \in 1..(k - 1) :
        /\ circ.data[j].name = "measure"
        /\ circ.data[j].cargs = << circ.data[k].cond[1] >>

\* C17: in the expansion of one macro-operation of any protocol kind
\* (RemoteCRZ, RemoteRZZ, RemoteCX, Teleport), every conditioned instruction
\* comes after a measurement, in the same expansion, into the bit it is
\* conditioned on.
C17_FeedForwardOrder ==
    ( /\ IsCall("decompose")
      /\ Len(pre.data) = 1
      /\ pre.data[1].name \in ProtocolKinds \cap last.gates ) =>
        \A k \in DOMAIN circ.data :
            circ.data[k].cond # << >> => MeasuredBefore(k)

\* The ancilla qubits: those of the entanglement registers a circuit may
\* hold, the caller's eq and the provisioned q_epr.
Ancillas == Bits(EprQ) \cup Bits(Reg("q_epr", 2))

\* C18: after autosubstitute(C, (A, B), {CNOT}) has returned, with the
\* ancilla qubits in neither A nor B, and decompose with the default kinds
\* has followed, the circuit holds no CNOT with one operand in A and the
\* other in B and no macro-operation.  C is any circuit of gates and
\* well-formed macro-operations.
C18_NoCrossPartitionCNOT ==
    ( /\ last.op = "decompose"
      /\ last.gates = MacroNames
      /\ last.after.op = "autosubstitute"
      /\ last.after.ok
      /\ last.after.gates = {"cx"}
      /\ Ancillas \cap (last.after.reglist[1] \cup last.after.reglist[2]) = {}
      /\ \A i \in DOMAIN pre.data :
            pre.data[i].name \in ProtocolKinds => ~Malformed(pre.data[i]) ) =>
        \A k \in DOMAIN circ.data :
            /\ circ.data[k].name \notin MacroNames
            /\ ~(circ.data[k].name = "cx"
                   /\ SpansPartitions(circ.data[k], last.after.reglist))

====
